---- MODULE Spec2Model ----
(***************************************************************************)
(* Model of the build_proto command of the gs_interactive Python SDK       *)
(* (flex/interactive/sdk/python/setup.py): BuildProto.generate_proto and   *)
(* BuildProto.run, together with the two things they talk to: the file     *)
(* system (glob, os.path.exists, os.makedirs) and the external protobuf    *)
(* compiler started through subprocess.check_call.                         *)
(*                                                                         *)
(* A path is a sequence of components: <<name>> is a file name relative to *)
(* the current working directory, <<dir, name>> is os.path.join(dir, name).*)
(* A file name is a record [hidden, stem, ext]: "hidden" says that the     *)
(* name begins with a dot, "ext" is what follows the last dot.             *)
(***************************************************************************)
EXTENDS Naturals, Sequences, FiniteSets

VARIABLES
    fs,           \* input tree: directory -> set of file names in it
    preexisting,  \* whether the output directories exist before the run
    plan,         \* the generate_proto calls the driver makes, in order
    dirExists,    \* output directory -> BOOLEAN
    outFiles,     \* files present in the output directories
    call,         \* index in plan of the current generate_proto call
    proto_files,  \* generate_proto's local list (after the glob)
    i,            \* position of the for loop in proto_files
    pc,           \* "begin", "loop", "running", "done", "error"
    proc,         \* the compiler process: "none", "running", "hung", "exited"
    returncode,   \* exit status of the compiler process once it has exited
    log,          \* compiler invocations issued, in order: [call, cmd]
    exits,        \* exit statuses check_call has seen, in order
    runNo,        \* 1 for the first run, 2 for the repeated run
    prevLog,      \* log of the first run, kept for the repeated run
    prevExits     \* exits of the first run

vars == <<fs, preexisting, plan, dirExists, outFiles, call, proto_files, i,
          pc, proc, returncode, log, exits, runNo, prevLog, prevExits>>

(* Bounds of the model. *)
MaxDirEntries == 3
MaxListLen == 2

(***************************************************************************)
(* Directories and file names.                                             *)
(***************************************************************************)
CWD == "."
IR_PROTO == "../../../../interactive_engine/executor/ir/proto/"
ERROR_PROTO == "../../../../proto/error"
GENERATED == "./gs_interactive/client/generated/"
OTHER_OUT == "./other_out/"

ProtoDirs == {IR_PROTO, ERROR_PROTO}
Dirs == ProtoDirs \cup {CWD}
OutDirs == {GENERATED, OTHER_OUT}

FileName(hidden, stem, ext) == [hidden |-> hidden, stem |-> stem, ext |-> ext]
interactive_proto == FileName(FALSE, "interactive", "proto")
a_proto == FileName(FALSE, "a", "proto")
b_proto == FileName(FALSE, "b", "proto")
dot_h_proto == FileName(TRUE, "h", "proto")
notes_txt == FileName(FALSE, "notes", "txt")

sys_executable == "python"

(***************************************************************************)
(* os.path.join(a, b) for a relative b, os.path.exists, glob.glob.         *)
(***************************************************************************)
Join(a, b) == a \o b

Exists(p) ==
    IF Len(p) = 1 THEN p[1] \in fs[CWD]
    ELSE IF Len(p) = 2 THEN p[1] \in ProtoDirs /\ p[2] \in fs[p[1]]
    ELSE FALSE

\* fnmatch of a directory entry against "*.proto": a name that begins with
\* a dot is not matched by a pattern that does not begin with one.
GlobAnyName(proto_path) == {Join(<<proto_path>>, <<n>>) : n \in fs[proto_path]}

Glob(proto_path) ==
    {Join(<<proto_path>>, <<n>>) :
        n \in {m \in fs[proto_path] : ~m.hidden /\ m.ext = "proto"}}

\* All orders in which a directory listing can return the set S.
Orders(S) ==
    {s \in [1..Cardinality(S) -> S] : \A x \in S : \E k \in DOMAIN s : s[k] = x}

None == [given |-> FALSE, list |-> <<>>]
Given(list) == [given |-> TRUE, list |-> list]

\* Lines 56-57: the list the loop runs over.
ListChoicesShuffled(arg, proto_path) ==
    IF ~arg.given THEN Orders(Glob(proto_path))
    ELSE {s \in [1..Len(arg.list) -> {arg.list[k] : k \in DOMAIN arg.list}] :
            \A k \in DOMAIN arg.list : \E j \in DOMAIN s : s[j] = arg.list[k]}

ListChoices(arg, proto_path) ==
    IF ~arg.given THEN Orders(Glob(proto_path)) ELSE {arg.list}

\* Lines 60-61: the path handed to the compiler for one entry.
ResolveAlwaysJoin(proto_path, proto_file) == Join(<<proto_path>>, proto_file)

Resolve(proto_path, proto_file) ==
    IF ~Exists(proto_file) THEN Join(<<proto_path>>, proto_file) ELSE proto_file

\* Lines 62-71: the command line of one invocation.
CmdNoMypy(proto_path, output_dir, proto_file) ==
    [prog |-> <<sys_executable, "-m", "grpc_tools.protoc">>,
     include |-> proto_path,
     outs |-> <<[opt |-> "--python_out", dir |-> output_dir]>>,
     file |-> proto_file]

CmdMypyBesideSource(proto_path, output_dir, proto_file) ==
    [prog |-> <<sys_executable, "-m", "grpc_tools.protoc">>,
     include |-> proto_path,
     outs |-> <<[opt |-> "--python_out", dir |-> output_dir],
                [opt |-> "--mypy_out", dir |-> proto_path]>>,
     file |-> proto_file]

Cmd(proto_path, output_dir, proto_file) ==
    [prog |-> <<sys_executable, "-m", "grpc_tools.protoc">>,
     include |-> proto_path,
     outs |-> <<[opt |-> "--python_out", dir |-> output_dir],
                [opt |-> "--mypy_out", dir |-> output_dir]>>,
     file |-> proto_file]

\* Line 58: os.makedirs(output_dir, exist_ok=True) on the directory table.
MakedirsIfFiles(exists, output_dir, files) ==
    IF files = <<>> THEN exists ELSE [exists EXCEPT ![output_dir] = TRUE]

Makedirs(exists, output_dir, files) == [exists EXCEPT ![output_dir] = TRUE]

\* Lines 77-86: the two calls of BuildProto.run.
RunCallsFirstOnly ==
    <<[proto_path |-> IR_PROTO, output_dir |-> GENERATED, proto_files |-> None]>>

RunCalls ==
    <<[proto_path |-> IR_PROTO, output_dir |-> GENERATED, proto_files |-> None],
      [proto_path |-> ERROR_PROTO, output_dir |-> GENERATED,
       proto_files |-> Given(<<<<interactive_proto>>>>)]>>

(***************************************************************************)
(* The inputs the model draws from.                                        *)
(***************************************************************************)
IRNames == {a_proto, b_proto, dot_h_proto, notes_txt}
Entries == {<<interactive_proto>>, <<a_proto>>}

Lists(n) == UNION {[1..k -> Entries] : k \in 0..n}

DirectCalls ==
    {<<[proto_path |-> p, output_dir |-> o, proto_files |-> f]>> :
        p \in ProtoDirs, o \in OutDirs,
        f \in {None} \cup {Given(l) : l \in Lists(MaxListLen)}}

Trees ==
    {[d \in Dirs |->
        IF d = IR_PROTO THEN ir
        ELSE IF d = ERROR_PROTO THEN err ELSE cwd] :
      ir \in {s \in SUBSET IRNames : Cardinality(s) <= MaxDirEntries},
      err \in SUBSET {interactive_proto},
      cwd \in SUBSET {interactive_proto, a_proto}}

\* What an output directory that exists before the run holds.
Stale(d) == [dir |-> d, plugin |-> "stale", src |-> <<>>]
InitialFiles(pre) == IF pre THEN {Stale(d) : d \in OutDirs} ELSE {}

Fresh ==
    /\ dirExists = [d \in OutDirs |-> preexisting]
    /\ outFiles = InitialFiles(preexisting)
    /\ call = 0
    /\ proto_files = <<>>
    /\ i = 1
    /\ pc = "begin"
    /\ proc = "none"
    /\ returncode = 0
    /\ log = <<>>
    /\ exits = <<>>

Init ==
    /\ fs \in Trees
    /\ preexisting \in BOOLEAN
    /\ plan \in {RunCalls} \cup DirectCalls
    /\ Fresh
    /\ runNo = 1
    /\ prevLog = <<>>
    /\ prevExits = <<>>

static == <<fs, preexisting, plan, runNo, prevLog, prevExits>>

(***************************************************************************)
(* generate_proto, lines 55-75.                                            *)
(***************************************************************************)
args == plan[call]

\* Lines 56-58: entry into the next call: the glob, then makedirs.
EnterGenerate ==
    /\ pc = "begin"
    /\ call < Len(plan)
    /\ call' = call + 1
    /\ \E files \in ListChoices(plan[call + 1].proto_files,
                                plan[call + 1].proto_path) :
        /\ proto_files' = files
        /\ dirExists' = Makedirs(dirExists, plan[call + 1].output_dir, files)
    /\ i' = 1
    /\ pc' = "loop"
    /\ UNCHANGED <<outFiles, proc, returncode, log, exits, static>>

\* Lines 59-72: one pass of the loop up to the start of the subprocess.
Invoke ==
    /\ pc = "loop"
    /\ i <= Len(proto_files)
    /\ log' = Append(log,
          [call |-> call,
           cmd |-> Cmd(args.proto_path, args.output_dir,
                       Resolve(args.proto_path, proto_files[i]))])
    /\ proc' = "running"
    /\ pc' = "running"
    /\ UNCHANGED <<dirExists, outFiles, call, proto_files, i, returncode, exits,
                   static>>

\* The compiler, an external process: it exits with a status, 0 only when
\* the file it was given exists, and on status 0 has written one file per
\* output option.
Outputs(cmd) ==
    {[dir |-> cmd.outs[k].dir, plugin |-> cmd.outs[k].opt, src |-> cmd.file] :
        k \in DOMAIN cmd.outs}

CompilerExit ==
    /\ proc = "running"
    /\ \E status \in IF Exists(log[Len(log)].cmd.file) THEN {0, 1} ELSE {1} :
        /\ proc' = "exited"
        /\ returncode' = status
        /\ outFiles' = IF status = 0
                       THEN outFiles \cup Outputs(log[Len(log)].cmd)
                       ELSE outFiles
    /\ UNCHANGED <<dirExists, call, proto_files, i, pc, log, exits, static>>

\* The compiler never exits (it waits on something that never comes).
CompilerHang ==
    /\ proc = "running"
    /\ proc' = "hung"
    /\ UNCHANGED <<dirExists, outFiles, call, proto_files, i, pc, returncode,
                   log, exits, static>>

\* How many of the exit statuses seen so far were failures.
Failures(e) == Cardinality({k \in DOMAIN e : e[k] # 0})

\* Lines 72-75: subprocess.check_call returns or raises.
CheckCallTimeout ==
    /\ pc = "running"
    /\ proc \in {"exited", "hung"}
    /\ exits' = Append(exits, IF proc = "exited" THEN returncode ELSE 1)
    /\ proc' = "none"
    /\ IF proc = "exited" /\ returncode = 0 THEN pc' = "loop" /\ i' = i + 1
       ELSE pc' = "error" /\ i' = i
    /\ UNCHANGED <<dirExists, outFiles, call, proto_files, returncode, log,
                   static>>

CheckCallRetry ==
    /\ pc = "running"
    /\ proc = "exited"
    /\ exits' = Append(exits, returncode)
    /\ proc' = "none"
    /\ IF returncode = 0 THEN pc' = "loop" /\ i' = i + 1
       ELSE IF Failures(exits) = 0 THEN pc' = "loop" /\ i' = i
       ELSE pc' = "error" /\ i' = i
    /\ UNCHANGED <<dirExists, outFiles, call, proto_files, returncode, log,
                   static>>

CheckCallIgnoreStatus ==
    /\ pc = "running"
    /\ proc = "exited"
    /\ exits' = Append(exits, returncode)
    /\ proc' = "none"
    /\ pc' = "loop"
    /\ i' = i + 1
    /\ UNCHANGED <<dirExists, outFiles, call, proto_files, returncode, log,
                   static>>

CheckCallReturn ==
    /\ pc = "running"
    /\ proc = "exited"
    /\ exits' = Append(exits, returncode)
    /\ proc' = "none"
    /\ IF returncode = 0 THEN pc' = "loop" /\ i' = i + 1
       ELSE pc' = "error" /\ i' = i
    /\ UNCHANGED <<dirExists, outFiles, call, proto_files, returncode, log,
                   static>>

\* The loop is exhausted: generate_proto returns to its caller, which makes
\* its next call or returns itself.
ReturnFromGenerate ==
    /\ pc = "loop"
    /\ i > Len(proto_files)
    /\ pc' = IF call < Len(plan) THEN "begin" ELSE "done"
    /\ UNCHANGED <<dirExists, outFiles, call, proto_files, i, proc, returncode,
                   log, exits, static>>

\* The same command is run a second time on the same inputs.
Rerun ==
    /\ pc \in {"done", "error"}
    /\ runNo = 1
    /\ runNo' = 2
    /\ prevLog' = log
    /\ prevExits' = exits
    /\ dirExists' = [d \in OutDirs |-> preexisting]
    /\ outFiles' = InitialFiles(preexisting)
    /\ call' = 0
    /\ proto_files' = <<>>
    /\ i' = 1
    /\ pc' = "begin"
    /\ proc' = "none"
    /\ returncode' = 0
    /\ log' = <<>>
    /\ exits' = <<>>
    /\ UNCHANGED <<fs, preexisting, plan>>

Next ==
    \/ EnterGenerate
    \/ Invoke
    \/ CompilerExit
    \/ CompilerHang
    \/ CheckCallReturn
    \/ ReturnFromGenerate
    \/ Rerun

Spec == Init /\ [][Next]_vars

\* BuildProto.run alone, with the interpreter always taking its next step.
RunInit == Init /\ plan = RunCalls

FairSpec == RunInit /\ [][Next]_vars /\ WF_vars(Next)

(***************************************************************************)
(* Shared vocabulary of the properties.                                    *)
(***************************************************************************)
\* The invocations issued by generate_proto call number c, in order.
CallLog(c) == SelectSeq(log, LAMBDA e : e.call = c)

\* Call number c has returned normally to its caller.
Returned(c) == c >= 1 /\ (call > c \/ (call = c /\ pc \in {"begin", "done"}))

Finished == pc \in {"done", "error"}
OptsOf(cmd) == {cmd.outs[k].opt : k \in DOMAIN cmd.outs}
Generated == {f \in outFiles : f.plugin # "stale"}
MatchedNames(d) == {n \in fs[d] : ~n.hidden /\ n.ext = "proto"}
ProtoNames(d) == {n \in fs[d] : n.ext = "proto"}
Compiled(c, path) ==
    Cardinality({j \in DOMAIN CallLog(c) : CallLog(c)[j].cmd.file = path})

C2_PythonAndGrpcOut ==
    \A k \in DOMAIN log :
        {"--python_out", "--grpc_python_out"} \subseteq OptsOf(log[k].cmd)

(* C2 (amended): every command line carries exactly two output requests,   *)
(* --python_out (Python message stubs) and --mypy_out (type stubs); none   *)
(* requests gRPC service stubs.                                            *)
C2_PythonAndMypyOut ==
    \A k \in DOMAIN log :
        /\ Len(log[k].cmd.outs) = 2
        /\ OptsOf(log[k].cmd) = {"--python_out", "--mypy_out"}

C2_Witness ==
    /\ pc = "done"
    /\ Len(log) >= 2
    /\ \E f \in Generated : f.plugin = "--mypy_out"

(***************************************************************************)
(* C3: every output option of every invocation names the output_dir of the *)
(* call that issued it, both calls of run use the generated/ directory,    *)
(* and nothing is written anywhere else.                                   *)
(***************************************************************************)
C3_OneOutputDirectory ==
    /\ \A k \in DOMAIN log : \A o \in DOMAIN log[k].cmd.outs :
          log[k].cmd.outs[o].dir = plan[log[k].call].output_dir
    /\ \A f \in Generated : \E c \in 1..call : f.dir = plan[c].output_dir
    /\ plan = RunCalls =>
          /\ \A c \in DOMAIN plan : plan[c].output_dir = GENERATED
          /\ \A f \in Generated : f.dir = GENERATED

C3_Witness ==
    /\ plan = RunCalls
    /\ pc = "done"
    /\ \E f \in Generated : f.src = <<interactive_proto>>
    /\ \E f \in Generated : f.plugin = "--python_out" /\ Len(f.src) = 2

(***************************************************************************)
(* C4 (as stated): after a successful call without proto_files, each       *)
(* .proto file directly in proto_path was compiled by exactly one          *)
(* invocation, nothing else was compiled, and invocations never overlap.   *)
(***************************************************************************)
C4_EveryProtoFileOnce ==
    /\ Len(log) - Len(exits) \in {0, 1}
    /\ \A c \in DOMAIN plan :
          (Returned(c) /\ ~plan[c].proto_files.given) =>
              /\ \A n \in ProtoNames(plan[c].proto_path) :
                    Compiled(c, <<plan[c].proto_path, n>>) = 1
              /\ \A j \in DOMAIN CallLog(c) :
                    \E n \in ProtoNames(plan[c].proto_path) :
                        CallLog(c)[j].cmd.file = <<plan[c].proto_path, n>>

(* C4 (amended): the same for each entry of proto_path that the pattern    *)
(* *.proto matches, which leaves out the names that begin with a dot: a    *)
(* hidden .proto file is not compiled.                                     *)
C4_EveryMatchedFileOnce ==
    /\ Len(log) - Len(exits) \in {0, 1}
    /\ (Len(log) - Len(exits) = 1) <=> (pc = "running")
    /\ \A c \in DOMAIN plan :
          (Returned(c) /\ ~plan[c].proto_files.given) =>
              /\ \A n \in MatchedNames(plan[c].proto_path) :
                    Compiled(c, <<plan[c].proto_path, n>>) = 1
              /\ \A j \in DOMAIN CallLog(c) :
                    \E n \in MatchedNames(plan[c].proto_path) :
                        CallLog(c)[j].cmd.file = <<plan[c].proto_path, n>>
              /\ \A n \in fs[plan[c].proto_path] :
                    n.hidden => Compiled(c, <<plan[c].proto_path, n>>) = 0

C4_Witness ==
    /\ Len(plan) = 1
    /\ plan[1].proto_path = IR_PROTO
    /\ ~plan[1].proto_files.given
    /\ pc = "done"
    /\ dot_h_proto \in fs[IR_PROTO]
    /\ Len(log) = 2

BothRunsSucceeded ==
    /\ runNo = 2
    /\ pc = "done"
    /\ \A k \in DOMAIN prevExits : prevExits[k] = 0

Range(l) == {l[k] : k \in DOMAIN l}
Requested(l) == UNION {Outputs(l[k].cmd) : k \in DOMAIN l}

C7_InvocationReturns == (pc = "running") ~> (pc # "running")

(* C7 (amended): an invocation has no timeout: it returns to its caller    *)
(* only once the compiler has exited, and does return once it has; while   *)
(* the compiler does not exit, generate_proto stays blocked in it.         *)
C7_ReturnsOnlyOnExit ==
    /\ [][(pc = "running" /\ pc' # "running") => proc = "exited"]_vars
    /\ [][proc = "hung" => (proc' = "hung" /\ pc' = "running")]_vars
    /\ (pc = "running" /\ proc = "exited") ~> (pc # "running")

C7_Witness ==
    /\ pc = "running"
    /\ proc = "hung"
    /\ Len(exits) = 1

(***************************************************************************)
(* C8: build_proto is fail-fast and never retries: a non-zero exit ends    *)
(* the run in an error at once, nothing further is invoked in that run     *)
(* (the second call of run never starts), the failed file is not invoked   *)
(* again, and the outputs of the earlier invocations stay in place.        *)
(***************************************************************************)
C8_FailFast ==
    /\ [](Failures(exits) > 0 => pc = "error")
    /\ [](pc = "error" =>
            /\ Len(log) = Len(exits)
            /\ log[Len(log)].call = call
            /\ \A k \in 1..(Len(log) - 1) :
                  exits[k] = 0 /\ Outputs(log[k].cmd) \subseteq outFiles)
    /\ [][(pc = "error" /\ runNo' = runNo) =>
            (pc' = "error" /\ log' = log /\ call' = call
             /\ outFiles' = outFiles)]_vars
    /\ [][(pc # "error" /\ pc' = "error") =>
            (log' = log /\ outFiles' = outFiles /\ call' = call)]_vars

C8_Witness ==
    /\ plan = RunCalls
    /\ pc = "error"
    /\ call = 1
    /\ Len(log) = 2
    /\ Cardinality(Generated) = 2

(***************************************************************************)
(* C9: in every generate_proto call the output directory exists from       *)
(* before the first invocation of the call, also when the list of files is *)
(* empty; a directory that was already there is no error and keeps what it *)
(* held.                                                                   *)
(***************************************************************************)
C9_OutputDirCreatedFirst ==
    /\ \A c \in 1..call : dirExists[plan[c].output_dir]
    /\ \A k \in DOMAIN log : dirExists[plan[log[k].call].output_dir]
    /\ \A d \in OutDirs : dirExists[d] =>
          (preexisting \/ \E c \in 1..call : plan[c].output_dir = d)
    /\ preexisting =>
          /\ \A d \in OutDirs : dirExists[d] /\ Stale(d) \in outFiles
          /\ (call >= 1 /\ Len(log) = 0) => pc # "error"

C9_Witness ==
    /\ ~preexisting
    /\ call = 1
    /\ proto_files = <<>>
    /\ pc = "done"
    /\ log = <<>>
    /\ dirExists[plan[1].output_dir]

(***************************************************************************)
(* C10: an entry of proto_files that exists as given is compiled under     *)
(* that path, any other under proto_path joined with it, whether or not    *)
(* the joined path exists; so run compiles the interactive.proto of        *)
(* proto/error only when the working directory has none; the caller's list *)
(* is left as it was.                                                      *)
(***************************************************************************)
Expected(proto_path, entry) ==
    IF entry[1] \in fs[CWD] THEN entry ELSE <<proto_path>> \o entry

C10_PathResolution ==
    /\ \A c \in 1..call :
          plan[c].proto_files.given =>
              \A j \in DOMAIN CallLog(c) :
                  CallLog(c)[j].cmd.file =
                      Expected(plan[c].proto_path, plan[c].proto_files.list[j])
    /\ plan = RunCalls =>
          \A j \in DOMAIN CallLog(2) :
              (CallLog(2)[j].cmd.file = <<ERROR_PROTO, interactive_proto>>)
                  <=> (interactive_proto \notin fs[CWD])
    /\ (call >= 1 /\ plan[call].proto_files.given) =>
          proto_files = plan[call].proto_files.list

C10_Witness ==
    /\ plan = RunCalls
    /\ pc = "done"
    /\ interactive_proto \in fs[CWD]
    /\ interactive_proto \in fs[ERROR_PROTO]
    /\ CallLog(2) # <<>>
    /\ CallLog(2)[1].cmd.file = <<interactive_proto>>

====
